---- MODULE Spec2Model ----
(***************************************************************************)
(* Model of the jiraassets_object resource of the Jira Assets Terraform    *)
(* provider: the schema lookups, the attribute value codec and the         *)
(* Create / Read / Update / Delete / ImportState handlers of               *)
(* objectResource, together with the plugin framework's handling of the    *)
(* response state and the remote object endpoint the handlers call.        *)
(***************************************************************************)
EXTENDS Integers, Sequences, FiniteSets, TLC

VARIABLES
    ignoreKeys,              \* objectResource.ignoreKeys
    objectSchemaTypes,       \* objectResource.objectSchemaTypes
    objectSchemaAttributes,  \* objectResource.objectSchemaAttributes
    configStatusType,        \* *objectResource.configStatusType
    state,                   \* the Terraform state of the managed resource
    remote,                  \* the object held by the remote Assets API
    op,                      \* the last handler invocation and its request
    calls,                   \* the remote calls that invocation issued, in order
    diags,                   \* the diagnostics (error summaries) it returned
    applied,                 \* the last direct application of a lookup or of the encoder
    decoded,                 \* the last direct application of the decoder
    resources                \* resource instances served concurrently: each one's
                             \* Terraform state and the handler invocation in flight

vars == <<ignoreKeys, objectSchemaTypes, objectSchemaAttributes, configStatusType,
          state, remote, op, calls, diags, applied, decoded, resources>>

configVars == <<ignoreKeys, objectSchemaTypes, objectSchemaAttributes, configStatusType>>

resourceVars == <<state, remote, op, calls, diags>>

-----------------------------------------------------------------------------
(* Bounds of the model. *)

MaxTypes == 2        \* longest object-type list drawn for the lookups
MaxDefs == 3         \* longest attribute-definition list drawn
MaxStatuses == 2     \* longest status table drawn
MaxPlanAttrs == 2    \* most attributes in a desired attribute map
MaxRemoteAttrs == 3  \* most attribute records the remote returns for an object
NumResources == 2    \* resource instances served concurrently

(* Attribute type codes the codec switches on. *)
TypeDefault == 0
TypeReference == 1
TypeStatus == 7
UnsupportedType == 2 \* a code the codec has no case for (its default branch)

-----------------------------------------------------------------------------
(* Go values. *)

Nil == "<nil>"       \* a nil error

\* &models.ObjectTypeScheme{}
ZeroObjectType == [Id |-> "", Name |-> ""]

\* &models.ObjectTypeAttributeScheme{}
ZeroAttribute == [ID |-> "", Name |-> "", Type |-> 0, ObjectTypeName |-> ""]

Range(s) == {s[i] : i \in 1..Len(s)}

\* slices.Contains
Contains(s, e) == \E i \in 1..Len(s) : s[i] = e

\* strings.Join
RECURSIVE Join(_, _)
Join(elems, sep) ==
    IF Len(elems) = 0 THEN ""
    ELSE IF Len(elems) = 1 THEN elems[1]
    ELSE elems[1] \o sep \o Join(Tail(elems), sep)

\* Sequences over S of length at most n.
SeqsUpTo(S, n) == UNION {[1..k -> S] : k \in 0..n}

-----------------------------------------------------------------------------
(* Schema lookups. *)

\* The range loop of getObjectTypeByName from position i on.
RECURSIVE ObjectTypeLoop(_, _, _)
ObjectTypeLoop(objName, schema, i) ==
    IF i > Len(schema) THEN ZeroObjectType
    ELSE IF schema[i].Name = objName THEN schema[i]
    ELSE ObjectTypeLoop(objName, schema, i + 1)

\* The same loop keeping the latest match instead of returning at the first.
RECURSIVE ObjectTypeLoopLast(_, _, _, _)
ObjectTypeLoopLast(objName, schema, i, found) ==
    IF i > Len(schema) THEN found
    ELSE ObjectTypeLoopLast(objName, schema, i + 1,
                            IF schema[i].Name = objName THEN schema[i] ELSE found)

getObjectTypeByName_LastMatch(objName, schema) ==
    ObjectTypeLoopLast(objName, schema, 1, ZeroObjectType)

getObjectTypeByName(objName, schema) == ObjectTypeLoop(objName, schema, 1)

\* The range loop of getObjectAttributeByName from position i on.
RECURSIVE ObjectAttributeLoop(_, _, _, _)
ObjectAttributeLoop(objName, objectType, schema, i) ==
    IF i > Len(schema) THEN ZeroAttribute
    ELSE IF schema[i].Name = objName /\ schema[i].ObjectTypeName = objectType
         THEN schema[i]
    ELSE ObjectAttributeLoop(objName, objectType, schema, i + 1)

\* The same loop without the test of the owning object type.
RECURSIVE ObjectAttributeLoopNameOnly(_, _, _)
ObjectAttributeLoopNameOnly(objName, schema, i) ==
    IF i > Len(schema) THEN ZeroAttribute
    ELSE IF schema[i].Name = objName THEN schema[i]
    ELSE ObjectAttributeLoopNameOnly(objName, schema, i + 1)

getObjectAttributeByName_NameOnly(objName, objectType, schema) ==
    ObjectAttributeLoopNameOnly(objName, schema, 1)

getObjectAttributeByName(objName, objectType, schema) ==
    ObjectAttributeLoop(objName, objectType, schema, 1)

-----------------------------------------------------------------------------
(* Status table lookups. *)

\* The range loop of getConfigStatusIDByName from position i on; statuses holds
\* the names appended so far.
RECURSIVE StatusIDLoop(_, _, _, _)
StatusIDLoop(status, statusType, i, statuses) ==
    IF i > Len(statusType)
    THEN [val |-> "",
          err |-> "unknown status, available statuses: " \o Join(statuses, ",")]
    ELSE IF statusType[i].Name = status
         THEN [val |-> statusType[i].ID, err |-> Nil]
    ELSE StatusIDLoop(status, statusType, i + 1, Append(statuses, statusType[i].Name))

\* The same loop forgetting to append the name of the first entry.
RECURSIVE StatusIDLoopSkipFirst(_, _, _, _)
StatusIDLoopSkipFirst(status, statusType, i, statuses) ==
    IF i > Len(statusType)
    THEN [val |-> "",
          err |-> "unknown status, available statuses: " \o Join(statuses, ",")]
    ELSE IF statusType[i].Name = status
         THEN [val |-> statusType[i].ID, err |-> Nil]
    ELSE StatusIDLoopSkipFirst(status, statusType, i + 1,
             IF i = 1 THEN statuses ELSE Append(statuses, statusType[i].Name))

getConfigStatusIDByName_DropsFirstName(status, statusType) ==
    StatusIDLoopSkipFirst(status, statusType, 1, <<>>)

getConfigStatusIDByName(status, statusType) ==
    StatusIDLoop(status, statusType, 1, <<>>)

\* The range loop of getConfigStatusNameByID from position i on.
RECURSIVE StatusNameLoop(_, _, _)
StatusNameLoop(id, statusType, i) ==
    IF i > Len(statusType) THEN ""
    ELSE IF statusType[i].ID = id THEN statusType[i].Name
    ELSE StatusNameLoop(id, statusType, i + 1)

getConfigStatusNameByID_ReturnsID(id, statusType) ==
    IF StatusNameLoop(id, statusType, 1) = "" THEN "" ELSE id

getConfigStatusNameByID(id, statusType) == StatusNameLoop(id, statusType, 1)

-----------------------------------------------------------------------------
(* Attribute value codec. *)

\* attr is a models.ObjectAttributeScheme:
\*   [ObjectTypeAttribute |-> [Name, Type],
\*    ObjectAttributeValues |-> sequence of [Value, SearchValue, StatusID]]
\* Indexing ObjectAttributeValues[0] of an empty slice panics.
getAttributeValue_SwappedFields(attr, statusType) ==
    LET t == attr.ObjectTypeAttribute.Type
        vals == attr.ObjectAttributeValues
    IN  IF t \notin {TypeReference, TypeDefault, TypeStatus}
        THEN [val |-> "", err |-> "unsupported attribute type: " \o ToString(t),
              panicked |-> FALSE]
        ELSE IF Len(vals) = 0
        THEN [val |-> "", err |-> Nil, panicked |-> TRUE]
        ELSE IF t = TypeReference
        THEN [val |-> vals[1].Value, err |-> Nil, panicked |-> FALSE]
        ELSE IF t = TypeDefault
        THEN [val |-> vals[1].SearchValue, err |-> Nil, panicked |-> FALSE]
        ELSE [val |-> getConfigStatusNameByID(vals[1].StatusID, statusType),
              err |-> Nil, panicked |-> FALSE]

getAttributeValue(attr, statusType) ==
    LET t == attr.ObjectTypeAttribute.Type
        vals == attr.ObjectAttributeValues
    IN  IF t \notin {TypeReference, TypeDefault, TypeStatus}
        THEN [val |-> "", err |-> "unsupported attribute type: " \o ToString(t),
              panicked |-> FALSE]
        ELSE IF Len(vals) = 0
        THEN [val |-> "", err |-> Nil, panicked |-> TRUE]
        ELSE IF t = TypeReference
        THEN [val |-> vals[1].SearchValue, err |-> Nil, panicked |-> FALSE]
        ELSE IF t = TypeDefault
        THEN [val |-> vals[1].Value, err |-> Nil, panicked |-> FALSE]
        ELSE [val |-> getConfigStatusNameByID(vals[1].StatusID, statusType),
              err |-> Nil, panicked |-> FALSE]

\* The result is [payload, err]: payload is the one-element sequence holding the
\* *models.ObjectPayloadAttributeScheme, or the empty sequence for a nil pointer.
PayloadAttribute(id, val) ==
    [ObjectTypeAttributeID |-> id, ObjectAttributeValues |-> <<[Value |-> val]>>]

returnAttributePayloadValue_RawStatus(name, value, objectType, schemaAttributes, statusType) ==
    LET attrSchema == getObjectAttributeByName(name, objectType, schemaAttributes)
        st == getConfigStatusIDByName(value, statusType)
    IN  IF attrSchema.Type = TypeStatus /\ st.err # Nil
        THEN [payload |-> <<>>, err |-> st.err]
        ELSE [payload |-> <<PayloadAttribute(attrSchema.ID, value)>>, err |-> Nil]

returnAttributePayloadValue(name, value, objectType, schemaAttributes, statusType) ==
    LET attrSchema == getObjectAttributeByName(name, objectType, schemaAttributes)
        st == getConfigStatusIDByName(value, statusType)
    IN  IF attrSchema.Type = TypeStatus
        THEN IF st.err # Nil
             THEN [payload |-> <<>>, err |-> st.err]
             ELSE [payload |-> <<PayloadAttribute(attrSchema.ID, st.val)>>, err |-> Nil]
        ELSE [payload |-> <<PayloadAttribute(attrSchema.ID, value)>>, err |-> Nil]

-----------------------------------------------------------------------------
(* Values the handlers and the pure functions are exercised on. *)

NoState == [null |-> TRUE]         \* the resource has no Terraform state
NoObject == [exists |-> FALSE]     \* the remote holds no object
NoOp == [name |-> "none"]
NotApplied == [fn |-> "none"]

ObjectType(id, name) == [Id |-> id, Name |-> name]

AttributeDef(id, name, type, objectTypeName) ==
    [ID |-> id, Name |-> name, Type |-> type, ObjectTypeName |-> objectTypeName]

Status(id, name) == [ID |-> id, Name |-> name]

\* Object types and attribute definitions the lookups are tried on: names
\* repeat under different IDs, so that a first match differs from a later one.
LookupObjectTypes ==
    {ObjectType("1", "Host"), ObjectType("2", "Host"), ObjectType("3", "Switch")}

LookupAttributeDefs ==
    {AttributeDef("10", "Status", TypeStatus, "Host"),
     AttributeDef("11", "Status", TypeDefault, "Host"),
     AttributeDef("12", "Status", TypeDefault, "Switch"),
     AttributeDef("13", "Name", TypeDefault, "Host")}

LookupNames == {"Host", "Switch", "Status", "Name", "Absent"}

\* Attribute definitions as the remote schema hands them out: one definition
\* per attribute name and object type.
SchemaAttributeDefs ==
    {AttributeDef("10", "Name", TypeDefault, "Host"),
     AttributeDef("11", "Status", TypeStatus, "Host"),
     AttributeDef("12", "Owner", TypeReference, "Host"),
     AttributeDef("13", "Score", UnsupportedType, "Host"),
     AttributeDef("14", "Status", TypeDefault, "Switch")}

\* Status options; IDs are the remote's keys, names may repeat.
StatusOptions == {Status("1", "Enabled"), Status("2", "Disabled"), Status("3", "Enabled")}

Injective(s, Key(_)) ==
    \A i, j \in 1..Len(s) : Key(s[i]) = Key(s[j]) => i = j

DefKey(d) == <<d.Name, d.ObjectTypeName>>

StatusKey(st) == st.ID

SchemaAttributeLists ==
    {s \in SeqsUpTo(SchemaAttributeDefs, MaxDefs) : Injective(s, DefKey)}

StatusTables == {s \in SeqsUpTo(StatusOptions, MaxStatuses) : Injective(s, StatusKey)}

AttrNames == {"Name", "Status", "Owner", "Score", "Bogus"}
ObjectTypeNames == {"Host", "Switch", ""}
RawValues == {"Enabled", "Disabled", "Unknown", "web1", ""}

\* One value of a remote attribute record.
AttributeValue(value, searchValue, statusID) ==
    [Value |-> value, SearchValue |-> searchValue, StatusID |-> statusID]

ObjectAttribute(name, type, values) ==
    [ObjectTypeAttribute |-> [Name |-> name, Type |-> type],
     ObjectAttributeValues |-> values]

\* The records the remote may return for a definition whose stored value is v:
\* a text attribute carries it as Value, a reference as SearchValue, a status
\* as the ID of its Status; the fields that do not carry it hold what the
\* remote likes.
OtherFieldValues == {"", "other"}

CarryingRecords(def, v) ==
    {ObjectAttribute(def.Name, def.Type, <<val>>) :
        val \in CASE def.Type = TypeDefault ->
                       {AttributeValue(v, x, "") : x \in OtherFieldValues}
                  [] def.Type = TypeReference ->
                       {AttributeValue(x, v, "") : x \in OtherFieldValues}
                  [] def.Type = TypeStatus ->
                       {AttributeValue(x, x, v) : x \in OtherFieldValues}
                  [] OTHER ->
                       {AttributeValue(v, v, "")}}

\* Records the decoder is tried on directly.
DecoderRecords ==
    {ObjectAttribute(n, t, vals) :
        n \in {"Status"},
        t \in {TypeDefault, TypeReference, TypeStatus, UnsupportedType},
        vals \in {<<>>} \cup {<<AttributeValue(a, b, c)>> :
                                a \in {"web1"}, b \in {"HOST-1"}, c \in {"1", "2", "9"}}}

-----------------------------------------------------------------------------
(* Direct applications of the lookups (specification SpecLookup). *)

InitLookup ==
    /\ ignoreKeys = <<>>
    /\ objectSchemaTypes \in SeqsUpTo(LookupObjectTypes, MaxTypes)
    /\ objectSchemaAttributes \in SeqsUpTo(LookupAttributeDefs, MaxDefs)
    /\ configStatusType = <<>>
    /\ state = NoState
    /\ remote = NoObject
    /\ op = NoOp
    /\ calls = <<>>
    /\ diags = <<>>
    /\ applied = NotApplied
    /\ decoded = NotApplied
    /\ resources = <<>>

ApplyGetObjectTypeByName ==
    \E objName \in LookupNames :
        /\ applied' = [fn |-> "getObjectTypeByName", objName |-> objName,
                       ret |-> getObjectTypeByName(objName, objectSchemaTypes)]
        /\ UNCHANGED <<configVars, resourceVars, decoded, resources>>

ApplyGetObjectAttributeByName ==
    \E objName \in LookupNames, objectType \in LookupNames :
        /\ applied' = [fn |-> "getObjectAttributeByName", objName |-> objName,
                       objectType |-> objectType,
                       ret |-> getObjectAttributeByName(objName, objectType,
                                                        objectSchemaAttributes)]
        /\ UNCHANGED <<configVars, resourceVars, decoded, resources>>

NextLookup == ApplyGetObjectTypeByName \/ ApplyGetObjectAttributeByName

SpecLookup == InitLookup /\ [][NextLookup]_vars

-----------------------------------------------------------------------------
(* Direct applications of the codec (specification SpecCodec). *)

InitCodec ==
    /\ ignoreKeys = <<>>
    /\ objectSchemaTypes = <<ObjectType("1", "Host"), ObjectType("3", "Switch")>>
    /\ objectSchemaAttributes \in SchemaAttributeLists
    /\ configStatusType \in StatusTables
    /\ state = NoState
    /\ remote = NoObject
    /\ op = NoOp
    /\ calls = <<>>
    /\ diags = <<>>
    /\ applied = NotApplied
    /\ decoded = NotApplied
    /\ resources = <<>>

\* Each behaviour applies the encoder once, the decoder once, or the encoder
\* and then the decoder.
\* encode: returnAttributePayloadValue on a name, a raw value and an object type.
ApplyReturnAttributePayloadValue ==
    /\ applied = NotApplied
    /\ decoded = NotApplied
    /\ \E name \in AttrNames, value \in RawValues, objectType \in ObjectTypeNames :
        LET r == returnAttributePayloadValue(name, value, objectType,
                                             objectSchemaAttributes, configStatusType)
        IN  /\ applied' = [fn |-> "returnAttributePayloadValue", name |-> name,
                           value |-> value, objectType |-> objectType,
                           def |-> getObjectAttributeByName(name, objectType,
                                                            objectSchemaAttributes),
                           payload |-> r.payload, err |-> r.err]
            /\ UNCHANGED <<configVars, resourceVars, decoded, resources>>

\* decode: getAttributeValue on a record the remote returns. After an encode
\* that produced a payload, the record is one that carries the encoded value
\* for the encoded definition (the remote stored the payload); otherwise it is
\* any record.
ApplyGetAttributeValue ==
    /\ decoded = NotApplied
    /\ \E attr \in IF applied.fn = "returnAttributePayloadValue" /\ applied.err = Nil
                THEN CarryingRecords(applied.def,
                                     applied.payload[1].ObjectAttributeValues[1].Value)
                ELSE DecoderRecords :
        LET r == getAttributeValue(attr, configStatusType)
        IN  /\ decoded' = [fn |-> "getAttributeValue", attr |-> attr,
                           val |-> r.val, err |-> r.err, panicked |-> r.panicked]
            /\ UNCHANGED <<configVars, resourceVars, applied, resources>>

NextCodec == ApplyReturnAttributePayloadValue \/ ApplyGetAttributeValue

SpecCodec == InitCodec /\ [][NextCodec]_vars

-----------------------------------------------------------------------------
(* Plugin framework values (types.String, types.Bool, types.Map) and the    *)
(* resource model.                                                          *)

StringValue(s) == [state |-> "known", value |-> s]
StringNull == [state |-> "null", value |-> ""]
StringUnknown == [state |-> "unknown", value |-> ""]

BoolValue(b) == [state |-> "known", value |-> b]
BoolNull == [state |-> "null", value |-> FALSE]

\* types.MapValueFrom(ctx, types.StringType, m) of a Go map[string]string
MapValueFrom(m) == [state |-> "known", elements |-> [k \in DOMAIN m |-> StringValue(m[k])]]
MapNull == [state |-> "null", elements |-> <<>>]

\* plan.Attributes.ElementsAs(ctx, &elements, false) followed by ValueString()
\* on each element: the Go map of raw strings.
ElementsAs(attributes) == [k \in DOMAIN attributes.elements |-> attributes.elements[k].value]

\* ImportStatePassthroughID: a state in which only id is set.
ImportedState(id) ==
    [WorkspaceId |-> StringNull, GlobalId |-> StringNull, Id |-> StringValue(id),
     Label |-> StringNull, ObjectKey |-> StringNull, Created |-> StringNull,
     Updated |-> StringNull, HasAvatar |-> BoolNull, Type |-> StringNull,
     Attributes |-> MapNull, AvatarUuid |-> StringNull]

-----------------------------------------------------------------------------
(* Requests and remote contents the handlers are exercised on. *)

\* The schema cache and the status table of the configured provider.
HostObjectTypes == <<ObjectType("1", "Host"), ObjectType("3", "Switch")>>

HostAttributeDefs ==
    <<AttributeDef("10", "Name", TypeDefault, "Host"),
      AttributeDef("11", "Status", TypeStatus, "Host"),
      AttributeDef("12", "Owner", TypeReference, "Host"),
      AttributeDef("13", "Score", UnsupportedType, "Host"),
      AttributeDef("14", "Status", TypeDefault, "Switch")>>

\* The caches of two remote schemas: the second has no object type Host, and
\* so no attribute definition of it.
ConfiguredSchemas ==
    {[types |-> HostObjectTypes, attributes |-> HostAttributeDefs],
     [types |-> <<ObjectType("3", "Switch")>>,
      attributes |-> <<AttributeDef("14", "Status", TypeDefault, "Switch")>>]}

ConfiguredStatusTable == <<Status("1", "Enabled"), Status("2", "Disabled")>>

ConfiguredIgnoreKeys == {<<>>, <<"Name", "Score">>}

\* Desired attribute values by attribute name; Bogus is no attribute of any
\* object type.
DesiredValues(name) ==
    CASE name = "Status" -> {"Enabled", "Unknown"}
      [] name = "Score" -> {"5"}
      [] OTHER -> {"x"}

DesiredNames == {"Status", "Score", "Bogus"}

DesiredTypes == {"Host"}

DesiredAttributeMaps ==
    UNION {{m \in [K -> UNION {DesiredValues(n) : n \in K}] :
                \A n \in K : m[n] \in DesiredValues(n)} :
           K \in {K \in SUBSET DesiredNames : Cardinality(K) <= MaxPlanAttrs}}

\* The orders in which a Go range over a map with key set K may visit it.
RangeOrders(K) ==
    {o \in [1..Cardinality(K) -> K] : \A i, j \in 1..Cardinality(K) : o[i] = o[j] => i = j}

\* models.ObjectScheme values the remote returns for the object.
RemoteObject(label, updated, hasAvatar) ==
    [WorkspaceId |-> "ws", GlobalId |-> "ws:7", ID |-> "7", Label |-> label,
     ObjectKey |-> "HOST-7", Created |-> "t0", Updated |-> updated,
     HasAvatar |-> hasAvatar, ObjectTypeName |-> "Host"]

RemoteObjects == {RemoteObject("web1", "t0", FALSE), RemoteObject("web2", "t1", TRUE)}

\* Attribute records the remote returns, in the remote's own attribute order.
RemoteRecords ==
    <<ObjectAttribute("Key", TypeDefault, <<AttributeValue("HOST-7", "HOST-7", "")>>),
      ObjectAttribute("Name", TypeDefault, <<AttributeValue("web1", "web1", "")>>),
      ObjectAttribute("Name", TypeDefault, <<>>),
      ObjectAttribute("Status", TypeStatus, <<AttributeValue("", "", "1")>>),
      ObjectAttribute("Score", UnsupportedType, <<AttributeValue("5", "5", "")>>)>>

\* The sub-lists of RemoteRecords that name each attribute once.
RECURSIVE Pick(_, _)
Pick(idx, i) ==
    IF i > Len(RemoteRecords) THEN <<>>
    ELSE IF i \in idx THEN <<RemoteRecords[i]>> \o Pick(idx, i + 1)
    ELSE Pick(idx, i + 1)

RemoteAttributeLists ==
    {Pick(idx, 1) :
        idx \in {I \in SUBSET (1..Len(RemoteRecords)) :
                    /\ Cardinality(I) <= MaxRemoteAttrs
                    /\ \A i, j \in I :
                          RemoteRecords[i].ObjectTypeAttribute.Name
                            = RemoteRecords[j].ObjectTypeAttribute.Name => i = j}}

RemoteContents == {NoObject} \cup {[exists |-> TRUE, object |-> o] : o \in RemoteObjects}

ImportIDs == {"7", "8"}

RemoteError == "remote error"

-----------------------------------------------------------------------------
(* The plans the framework hands to Create and Update (resource schema). *)

\* Computed attributes are unknown in the plan of a create; has_avatar takes
\* its default, avatar_uuid is not configured.
CreatePlan(type, attrs) ==
    [WorkspaceId |-> StringUnknown, GlobalId |-> StringUnknown, Id |-> StringUnknown,
     Label |-> StringUnknown, ObjectKey |-> StringUnknown, Created |-> StringUnknown,
     Updated |-> StringUnknown, HasAvatar |-> BoolValue(FALSE),
     Type |-> StringValue(type), Attributes |-> MapValueFrom(attrs),
     AvatarUuid |-> StringNull]

\* stringplanmodifier.UseStateForUnknown
UseStateForUnknown(stateValue) ==
    IF stateValue.state = "null" THEN StringUnknown ELSE stateValue

\* In the plan of an update the computed attributes keep their prior value,
\* except updated, which has no plan modifier.
UpdatePlan(prior, type, attrs) ==
    [WorkspaceId |-> UseStateForUnknown(prior.WorkspaceId),
     GlobalId |-> UseStateForUnknown(prior.GlobalId),
     Id |-> UseStateForUnknown(prior.Id),
     Label |-> UseStateForUnknown(prior.Label),
     ObjectKey |-> UseStateForUnknown(prior.ObjectKey),
     Created |-> UseStateForUnknown(prior.Created),
     Updated |-> StringUnknown, HasAvatar |-> BoolValue(FALSE),
     Type |-> StringValue(type), Attributes |-> MapValueFrom(attrs),
     AvatarUuid |-> StringNull]

Diagnostic(summary, detail) == [summary |-> summary, detail |-> detail]

RemoteCall(method, arg, err) == [method |-> method, arg |-> arg, err |-> err]

-----------------------------------------------------------------------------
(* Create and Update. *)

\* The loop over the desired attributes, visiting them in `order`, from
\* position i on; attributes holds the payload records appended so far. It
\* ends at the first encode error.
RECURSIVE AttributesLoop(_, _, _, _, _)
AttributesLoop(order, elements, objectTypeName, i, attributes) ==
    IF i > Len(order) THEN [attributes |-> attributes, err |-> Nil]
    ELSE LET r == returnAttributePayloadValue(order[i], elements[order[i]],
                      objectTypeName, objectSchemaAttributes, configStatusType)
         IN  IF r.err # Nil
             THEN [attributes |-> attributes, err |-> r.err]
             ELSE AttributesLoop(order, elements, objectTypeName, i + 1,
                                 Append(attributes, r.payload[1]))

\* The same loop skipping an attribute whose encoding fails.
RECURSIVE AttributesLoopSkipping(_, _, _, _, _)
AttributesLoopSkipping(order, elements, objectTypeName, i, attributes) ==
    IF i > Len(order) THEN [attributes |-> attributes, err |-> Nil]
    ELSE LET r == returnAttributePayloadValue(order[i], elements[order[i]],
                      objectTypeName, objectSchemaAttributes, configStatusType)
         IN  AttributesLoopSkipping(order, elements, objectTypeName, i + 1,
                 IF r.err # Nil THEN attributes ELSE Append(attributes, r.payload[1]))

EncodeAttributes_SkipsFailed(order, elements, objectTypeName) ==
    AttributesLoopSkipping(order, elements, objectTypeName, 1, <<>>)

EncodeAttributes(order, elements, objectTypeName) ==
    AttributesLoop(order, elements, objectTypeName, 1, <<>>)

\* &models.ObjectPayloadScheme{...}
ObjectPayload(object_type_id, attributes, plan) ==
    [ObjectTypeID |-> object_type_id.Id, Attributes |-> attributes,
     HasAvatar |-> plan.HasAvatar.value, AvatarUUID |-> plan.AvatarUuid.value]

\* The plan with the computed attributes populated from the returned object.
PopulateComputed(plan, object) ==
    [plan EXCEPT !.WorkspaceId = StringValue(object.WorkspaceId),
                 !.GlobalId = StringValue(object.GlobalId),
                 !.Id = StringValue(object.ID),
                 !.Label = StringValue(object.Label),
                 !.ObjectKey = StringValue(object.ObjectKey),
                 !.Created = StringValue(object.Created),
                 !.Updated = StringValue(object.Updated),
                 !.HasAvatar = BoolValue(object.HasAvatar)]

\* What one invocation of a handler leaves behind: the response state, the
\* remote's content, the remote calls issued, the diagnostics, the outcome.
Response(st, rem, cs, ds, outcome) ==
    [state |-> st, remote |-> rem, calls |-> cs, diags |-> ds, outcome |-> outcome]

\* Create on request plan; order is the map iteration order, response what
\* the remote answers to Object.Create, should the call be issued: an error, or
\* the created object. The response state of a create starts empty.
CreateStoringOnError(plan, order, response) ==
    LET object_type_id == getObjectTypeByName(plan.Type.value, objectSchemaTypes)
        enc == EncodeAttributes(order, ElementsAs(plan.Attributes), object_type_id.Name)
        payload == ObjectPayload(object_type_id, enc.attributes, plan)
    IN  IF enc.err # Nil
        THEN Response(plan, remote, <<>>,
                      <<Diagnostic("Error during object attributes setting", enc.err)>>,
                      "error")
        ELSE IF response.err # Nil
        THEN Response(plan, remote,
                      <<RemoteCall("Object.Create", payload, response.err)>>,
                      <<Diagnostic("Error during object creation", response.err)>>,
                      "error")
        ELSE Response(PopulateComputed(plan, response.object),
                      [exists |-> TRUE, object |-> response.object],
                      <<RemoteCall("Object.Create", payload, Nil)>>, <<>>, "ok")

CreateResponse(plan, order, response) ==
    LET object_type_id == getObjectTypeByName(plan.Type.value, objectSchemaTypes)
        enc == EncodeAttributes(order, ElementsAs(plan.Attributes), object_type_id.Name)
        payload == ObjectPayload(object_type_id, enc.attributes, plan)
    IN  IF enc.err # Nil
        THEN Response(NoState, remote, <<>>,
                      <<Diagnostic("Error during object attributes setting", enc.err)>>,
                      "error")
        ELSE IF response.err # Nil
        THEN Response(NoState, remote,
                      <<RemoteCall("Object.Create", payload, response.err)>>,
                      <<Diagnostic("Error during object creation", response.err)>>,
                      "error")
        ELSE Response(PopulateComputed(plan, response.object),
                      [exists |-> TRUE, object |-> response.object],
                      <<RemoteCall("Object.Create", payload, Nil)>>, <<>>, "ok")

\* Update on request plan, with prior as the response state it starts from.
UpdateSendingPrior(prior, plan, order, response) ==
    LET object_type_id == getObjectTypeByName(plan.Type.value, objectSchemaTypes)
        merged == [k \in DOMAIN ElementsAs(prior.Attributes)
                           \cup DOMAIN ElementsAs(plan.Attributes) |->
                      IF k \in DOMAIN ElementsAs(plan.Attributes)
                      THEN ElementsAs(plan.Attributes)[k]
                      ELSE ElementsAs(prior.Attributes)[k]]
        enc == EncodeAttributes(
                   order \o CHOOSE o \in RangeOrders(DOMAIN merged \ Range(order)) : TRUE,
                   merged, object_type_id.Name)
        payload == ObjectPayload(object_type_id, enc.attributes, plan)
    IN  IF enc.err # Nil
        THEN Response(prior, remote, <<>>,
                      <<Diagnostic("Error during object attributes setting", enc.err)>>,
                      "error")
        ELSE IF response.err # Nil
        THEN Response(prior, remote,
                      <<RemoteCall("Object.Update", payload, response.err)>>,
                      <<Diagnostic("Error during object update", response.err)>>,
                      "error")
        ELSE Response(PopulateComputed(plan, response.object),
                      [remote EXCEPT !.object = response.object],
                      <<RemoteCall("Object.Update", payload, Nil)>>, <<>>, "ok")

UpdateResponse(prior, plan, order, response) ==
    LET object_type_id == getObjectTypeByName(plan.Type.value, objectSchemaTypes)
        enc == EncodeAttributes(order, ElementsAs(plan.Attributes), object_type_id.Name)
        payload == ObjectPayload(object_type_id, enc.attributes, plan)
    IN  IF enc.err # Nil
        THEN Response(prior, remote, <<>>,
                      <<Diagnostic("Error during object attributes setting", enc.err)>>,
                      "error")
        ELSE IF response.err # Nil
        THEN Response(prior, remote,
                      <<RemoteCall("Object.Update", payload, response.err)>>,
                      <<Diagnostic("Error during object update", response.err)>>,
                      "error")
        ELSE Response(PopulateComputed(plan, response.object),
                      [remote EXCEPT !.object = response.object],
                      <<RemoteCall("Object.Update", payload, Nil)>>, <<>>, "ok")

-----------------------------------------------------------------------------
(* Read and Delete. *)

\* ignore_keys := append([]string{"Created", "Key", "Updated"}, r.ignoreKeys...)
\* on r.ignoreKeys = keys: the local slice it builds, and r.ignoreKeys as the
\* statement leaves it. The same statement written as
\* r.ignoreKeys = append(r.ignoreKeys, "Created", "Key", "Updated"):
ExclusionList_AppendsToShared(keys) ==
    [ignore_keys |-> keys \o <<"Created", "Key", "Updated">>,
     ignoreKeys |-> keys \o <<"Created", "Key", "Updated">>]

ExclusionList(keys) ==
    [ignore_keys |-> <<"Created", "Key", "Updated">> \o keys, ignoreKeys |-> keys]

\* One iteration of Read's loop, on the returned record attr with the Go map
\* attributes built so far and r.ignoreKeys = keys: the map, whether
\* getAttributeValue panicked, and r.ignoreKeys after the iteration.
ReadIteration(attr, attributes, keys) ==
    LET e == ExclusionList(keys)
        name == attr.ObjectTypeAttribute.Name
        r == getAttributeValue(attr, configStatusType)
    IN  IF Contains(e.ignore_keys, name)
        THEN [attributes |-> attributes, panicked |-> FALSE, ignoreKeys |-> e.ignoreKeys]
        ELSE IF r.panicked
        THEN [attributes |-> attributes, panicked |-> TRUE, ignoreKeys |-> e.ignoreKeys]
        ELSE [attributes |-> [k \in DOMAIN attributes \cup {name} |->
                                 IF k = name THEN r.val ELSE attributes[k]],
              panicked |-> FALSE, ignoreKeys |-> e.ignoreKeys]

\* The loop over the returned attribute records from position i on;
\* attributes is the Go map built so far. A panic of getAttributeValue
\* ends the handler.
RECURSIVE ReadLoop(_, _, _)
ReadLoop(attrs, i, attributes) ==
    IF i > Len(attrs) THEN [attributes |-> attributes, panicked |-> FALSE]
    ELSE LET it == ReadIteration(attrs[i], attributes, ignoreKeys)
         IN  IF it.panicked
             THEN [attributes |-> it.attributes, panicked |-> TRUE]
             ELSE ReadLoop(attrs, i + 1, it.attributes)

\* The same loop testing the configured ignore-keys only.
RECURSIVE ReadLoopConfiguredOnly(_, _, _)
ReadLoopConfiguredOnly(attrs, i, attributes) ==
    IF i > Len(attrs) THEN [attributes |-> attributes, panicked |-> FALSE]
    ELSE LET name == attrs[i].ObjectTypeAttribute.Name
         IN  IF Contains(ignoreKeys, name)
             THEN ReadLoopConfiguredOnly(attrs, i + 1, attributes)
             ELSE LET r == getAttributeValue(attrs[i], configStatusType)
                  IN  IF r.panicked
                      THEN [attributes |-> attributes, panicked |-> TRUE]
                      ELSE ReadLoopConfiguredOnly(attrs, i + 1,
                               [k \in DOMAIN attributes \cup {name} |->
                                   IF k = name THEN r.val ELSE attributes[k]])

RebuildAttributes_ConfiguredOnly(attrs) == ReadLoopConfiguredOnly(attrs, 1, <<>>)

RebuildAttributes(attrs) == ReadLoop(attrs, 1, <<>>)

\* The state Read sets: the request state with the rebuilt map and the fields
\* Read overwrites from the returned object.
Refreshed(st, object, attributes) ==
    [st EXCEPT !.Attributes = MapValueFrom(attributes),
               !.WorkspaceId = StringValue(object.WorkspaceId),
               !.GlobalId = StringValue(object.GlobalId),
               !.Id = StringValue(object.ID),
               !.Label = StringValue(object.Label),
               !.ObjectKey = StringValue(object.ObjectKey),
               !.HasAvatar = BoolValue(object.HasAvatar),
               !.Type = StringValue(object.ObjectTypeName)]

\* Read on the state st; got is the remote's answer to Object.Get and listed
\* its answer to Object.Attributes, should that call be issued.
\* The same handler returning the decoder's error as a diagnostic.
ReadResponse_StrictDecode(st, got, listed) ==
    LET id == st.Id.value
        getCall(err) == RemoteCall("Object.Get", id, err)
        listCall(err) == RemoteCall("Object.Attributes", id, err)
    IN  IF got.err # Nil
        THEN Response(st, remote, <<getCall(got.err)>>,
                      <<Diagnostic("Error during object reading", got.err)>>, "error")
        ELSE IF listed.err # Nil
        THEN Response(st, remote, <<getCall(Nil), listCall(listed.err)>>,
                      <<Diagnostic("Error during object attributes reading", listed.err)>>,
                      "error")
        ELSE LET built == RebuildAttributes(listed.attrs)
                 object == got.object
                 failed == {i \in 1..Len(listed.attrs) :
                              /\ listed.attrs[i].ObjectTypeAttribute.Name
                                    \in DOMAIN built.attributes
                              /\ getAttributeValue(listed.attrs[i], configStatusType).err # Nil}
             IN  IF built.panicked
                 THEN Response(st, remote, <<getCall(Nil), listCall(Nil)>>, <<>>, "panic")
                 ELSE IF failed # {}
                 THEN Response(st, remote, <<getCall(Nil), listCall(Nil)>>,
                        <<Diagnostic("Error during object attributes reading",
                                     "unsupported attribute type")>>, "error")
                 ELSE Response(Refreshed(st, object, built.attributes),
                               remote, <<getCall(Nil), listCall(Nil)>>, <<>>, "ok")

\* The same handler taking the label from the request state's object key
\* instead of the returned object.
ReadResponse_LabelFromState(st, got, listed) ==
    LET id == st.Id.value
        getCall(err) == RemoteCall("Object.Get", id, err)
        listCall(err) == RemoteCall("Object.Attributes", id, err)
    IN  IF got.err # Nil
        THEN Response(st, remote, <<getCall(got.err)>>,
                      <<Diagnostic("Error during object reading", got.err)>>, "error")
        ELSE IF listed.err # Nil
        THEN Response(st, remote, <<getCall(Nil), listCall(listed.err)>>,
                      <<Diagnostic("Error during object attributes reading", listed.err)>>,
                      "error")
        ELSE LET built == RebuildAttributes(listed.attrs)
                 object == got.object
             IN  IF built.panicked
                 THEN Response(st, remote, <<getCall(Nil), listCall(Nil)>>, <<>>, "panic")
                 ELSE Response(
                        [st EXCEPT !.Attributes = MapValueFrom(built.attributes),
                                   !.WorkspaceId = StringValue(object.WorkspaceId),
                                   !.GlobalId = StringValue(object.GlobalId),
                                   !.Id = StringValue(object.ID),
                                   !.Label = StringValue(st.ObjectKey.value),
                                   !.ObjectKey = StringValue(object.ObjectKey),
                                   !.HasAvatar = BoolValue(object.HasAvatar),
                                   !.Type = StringValue(object.ObjectTypeName)],
                        remote, <<getCall(Nil), listCall(Nil)>>, <<>>, "ok")

ReadResponse(st, got, listed) ==
    LET id == st.Id.value
        getCall(err) == RemoteCall("Object.Get", id, err)
        listCall(err) == RemoteCall("Object.Attributes", id, err)
    IN  IF got.err # Nil
        THEN Response(st, remote, <<getCall(got.err)>>,
                      <<Diagnostic("Error during object reading", got.err)>>, "error")
        ELSE IF listed.err # Nil
        THEN Response(st, remote, <<getCall(Nil), listCall(listed.err)>>,
                      <<Diagnostic("Error during object attributes reading", listed.err)>>,
                      "error")
        ELSE LET built == RebuildAttributes(listed.attrs)
                 object == got.object
             IN  IF built.panicked
                 THEN Response(st, remote, <<getCall(Nil), listCall(Nil)>>, <<>>, "panic")
                 ELSE Response(Refreshed(st, object, built.attributes),
                               remote, <<getCall(Nil), listCall(Nil)>>, <<>>, "ok")

\* Delete on the state st; the framework removes the state when the handler
\* returns no error.
DeleteResponse(st, response) ==
    IF response.err # Nil
    THEN Response(st, remote,
                  <<RemoteCall("Object.Delete", st.Id.value, response.err)>>,
                  <<Diagnostic("Error during object deletion", response.err)>>, "error")
    ELSE Response(NoState, NoObject,
                  <<RemoteCall("Object.Delete", st.Id.value, Nil)>>, <<>>, "ok")

-----------------------------------------------------------------------------
(* The resource's life cycle (specification Spec). *)

Init ==
    /\ ignoreKeys \in ConfiguredIgnoreKeys
    /\ \E schema \in ConfiguredSchemas :
          /\ objectSchemaTypes = schema.types
          /\ objectSchemaAttributes = schema.attributes
    /\ configStatusType = ConfiguredStatusTable
    /\ state = NoState
    /\ remote = NoObject
    /\ op = NoOp
    /\ calls = <<>>
    /\ diags = <<>>
    /\ applied = NotApplied
    /\ decoded = NotApplied
    /\ resources = <<>>

\* The remote answers a call on object id with an error at will, and has to
\* when it holds no object of that ID.
Holds(id) == remote.exists /\ remote.object.ID = id

Failure == [err |-> RemoteError]

Respond(r) ==
    /\ state' = r.state
    /\ remote' = r.remote
    /\ calls' = r.calls
    /\ diags' = r.diags
    /\ UNCHANGED <<configVars, applied, decoded, resources>>

Create ==
    /\ state = NoState
    /\ \E type \in DesiredTypes, attrs \in DesiredAttributeMaps :
          LET plan == CreatePlan(type, attrs)
          IN  \E order \in RangeOrders(DOMAIN attrs),
                 response \in {Failure} \cup {[err |-> Nil, object |-> o] : o \in RemoteObjects} :
                 LET r == CreateResponse(plan, order, response)
                 IN  /\ op' = [name |-> "Create", plan |-> plan, outcome |-> r.outcome]
                     /\ Respond(r)

\* Object.Get answers with the object the remote holds; Object.Attributes
\* with the attribute records the remote has for it at that moment. op.repeat
\* tells that this Read directly follows a successful Read that was given the
\* same answers (the remote did not change in between).
Read ==
    /\ state # NoState
    /\ \E got \in {Failure} \cup
                  (IF Holds(state.Id.value)
                   THEN {[err |-> Nil, object |-> remote.object]} ELSE {}) :
          \E listed \in {Failure} \cup
                  (IF got.err = Nil
                   THEN {[err |-> Nil, attrs |-> a] : a \in RemoteAttributeLists}
                   ELSE {}) :
             LET r == ReadResponse(state, got, listed)
                 answered == got.err = Nil /\ listed.err = Nil
             IN  /\ op' = [name |-> "Read",
                            attrs |-> IF answered THEN listed.attrs ELSE <<>>,
                            repeat |-> /\ answered
                                       /\ op.name = "Read"
                                       /\ op.outcome = "ok"
                                       /\ op.attrs = listed.attrs,
                            outcome |-> r.outcome]
                 /\ Respond(r)

Update ==
    /\ state # NoState
    /\ \E type \in DesiredTypes, attrs \in DesiredAttributeMaps :
          LET plan == UpdatePlan(state, type, attrs)
          IN  \E order \in RangeOrders(DOMAIN attrs),
                 response \in {Failure} \cup
                     (IF Holds(plan.Id.value)
                      THEN {[err |-> Nil, object |-> o] : o \in RemoteObjects} ELSE {}) :
                 LET r == UpdateResponse(state, plan, order, response)
                 IN  /\ op' = [name |-> "Update", plan |-> plan,
                                removed |-> DOMAIN state.Attributes.elements \ DOMAIN attrs,
                                outcome |-> r.outcome]
                     /\ Respond(r)

Delete ==
    /\ state # NoState
    /\ \E response \in {Failure} \cup
                       (IF Holds(state.Id.value) THEN {[err |-> Nil]} ELSE {}) :
          LET r == DeleteResponse(state, response)
          IN  /\ op' = [name |-> "Delete", outcome |-> r.outcome]
              /\ Respond(r)

ImportState ==
    /\ state = NoState
    /\ \E id \in ImportIDs :
          /\ state' = ImportedState(id)
          /\ op' = [name |-> "ImportState", id |-> id, outcome |-> "ok"]
          /\ calls' = <<>>
          /\ diags' = <<>>
          /\ UNCHANGED <<configVars, remote, applied, decoded, resources>>

\* The remote's object changes on its own (the remote has other writers).
RemoteChange ==
    /\ \E content \in RemoteContents :
          /\ content # remote
          /\ remote' = content
    /\ op' = [name |-> "RemoteChange", outcome |-> "ok"]
    /\ calls' = <<>>
    /\ diags' = <<>>
    /\ UNCHANGED <<configVars, state, applied, decoded, resources>>

Next == Create \/ Read \/ Update \/ Delete \/ ImportState \/ RemoteChange

Spec == Init /\ [][Next]_vars

-----------------------------------------------------------------------------
(* Handlers of several resource instances running concurrently on the one   *)
(* configured objectResource (specification SpecShared). The framework      *)
(* serves each resource instance in a goroutine of its own; the instances   *)
(* share the receiver's fields and the remote. Create, Update, Delete and   *)
(* ImportState touch the shared fields only by reading them and are taken   *)
(* as one step; Read is taken statement by statement: its two remote calls, *)
(* each iteration of its loop, and the final State.Set.                     *)

\* The resource instances, by number.
Resources == 1..NumResources

SharedObject == RemoteObject("web1", "t0", FALSE)

SharedAttributeMaps == {[n \in {"Status"} |-> v] : v \in {"Enabled", "Unknown"}}

SharedAttributeLists ==
    {<<RemoteRecords[1], RemoteRecords[2]>>, <<RemoteRecords[4], RemoteRecords[5]>>}

\* A resource instance with no handler in flight.
Idle(st) ==
    [state |-> st, pc |-> "idle", object |-> NoObject, attrs |-> <<>>, i |-> 0,
     attributes |-> <<>>]

InitShared ==
    /\ ignoreKeys \in ConfiguredIgnoreKeys
    /\ \E schema \in ConfiguredSchemas :
          /\ objectSchemaTypes = schema.types
          /\ objectSchemaAttributes = schema.attributes
    /\ configStatusType = ConfiguredStatusTable
    /\ state = NoState
    /\ remote = NoObject
    /\ op = NoOp
    /\ calls = <<>>
    /\ diags = <<>>
    /\ applied = NotApplied
    /\ decoded = NotApplied
    /\ resources = [r \in Resources |-> Idle(NoState)]

Serve(r, instance) == resources' = [resources EXCEPT ![r] = instance]

ServeCreate(r) ==
    /\ resources[r].pc = "idle"
    /\ resources[r].state = NoState
    /\ \E attrs \in SharedAttributeMaps :
          \E order \in RangeOrders(DOMAIN attrs),
             response \in {Failure, [err |-> Nil, object |-> SharedObject]} :
             LET res == CreateResponse(CreatePlan("Host", attrs), order, response)
             IN  /\ Serve(r, Idle(res.state))
                 /\ remote' = res.remote
    /\ UNCHANGED <<configVars, state, op, calls, diags, applied, decoded>>

ServeUpdate(r) ==
    /\ resources[r].pc = "idle"
    /\ resources[r].state # NoState
    /\ \E attrs \in SharedAttributeMaps :
          LET plan == UpdatePlan(resources[r].state, "Host", attrs)
          IN  \E order \in RangeOrders(DOMAIN attrs),
                 response \in {Failure} \cup
                     (IF Holds(plan.Id.value)
                      THEN {[err |-> Nil, object |-> SharedObject]} ELSE {}) :
                 LET res == UpdateResponse(resources[r].state, plan, order, response)
                 IN  /\ Serve(r, Idle(res.state))
                     /\ remote' = res.remote
    /\ UNCHANGED <<configVars, state, op, calls, diags, applied, decoded>>

ServeDelete(r) ==
    /\ resources[r].pc = "idle"
    /\ resources[r].state # NoState
    /\ \E response \in {Failure} \cup
                       (IF Holds(resources[r].state.Id.value) THEN {[err |-> Nil]} ELSE {}) :
          LET res == DeleteResponse(resources[r].state, response)
          IN  /\ Serve(r, Idle(res.state))
              /\ remote' = res.remote
    /\ UNCHANGED <<configVars, state, op, calls, diags, applied, decoded>>

ServeImportState(r) ==
    /\ resources[r].pc = "idle"
    /\ resources[r].state = NoState
    /\ \E id \in ImportIDs : Serve(r, Idle(ImportedState(id)))
    /\ UNCHANGED <<configVars, state, remote, op, calls, diags, applied, decoded>>

\* Read up to the answer of Object.Get.
ServeReadGet(r) ==
    /\ resources[r].pc = "idle"
    /\ resources[r].state # NoState
    /\ \E got \in {Failure} \cup
                  (IF Holds(resources[r].state.Id.value)
                   THEN {[err |-> Nil, object |-> remote.object]} ELSE {}) :
          Serve(r, IF got.err # Nil THEN Idle(resources[r].state)
                   ELSE [resources[r] EXCEPT !.pc = "Object.Attributes",
                                             !.object = got.object])
    /\ UNCHANGED <<configVars, state, remote, op, calls, diags, applied, decoded>>

\* Read from there up to the answer of Object.Attributes and the empty map.
ServeReadAttributes(r) ==
    /\ resources[r].pc = "Object.Attributes"
    /\ \E listed \in {Failure} \cup
                     (IF Holds(resources[r].state.Id.value)
                      THEN {[err |-> Nil, attrs |-> a] : a \in SharedAttributeLists}
                      ELSE {}) :
          Serve(r, IF listed.err # Nil THEN Idle(resources[r].state)
                   ELSE [resources[r] EXCEPT !.pc = "range attrs", !.attrs = listed.attrs,
                                             !.i = 1, !.attributes = <<>>])
    /\ UNCHANGED <<configVars, state, remote, op, calls, diags, applied, decoded>>

\* One iteration of Read's loop; a panic ends the handler.
ServeReadIteration(r) ==
    /\ resources[r].pc = "range attrs"
    /\ resources[r].i <= Len(resources[r].attrs)
    /\ LET it == ReadIteration(resources[r].attrs[resources[r].i],
                               resources[r].attributes, ignoreKeys)
       IN  /\ ignoreKeys' = it.ignoreKeys
           /\ Serve(r, IF it.panicked THEN Idle(resources[r].state)
                       ELSE [resources[r] EXCEPT !.i = @ + 1,
                                                 !.attributes = it.attributes])
    /\ UNCHANGED <<objectSchemaTypes, objectSchemaAttributes, configStatusType,
                   state, remote, op, calls, diags, applied, decoded>>

\* Read after the loop: the state is set.
ServeReadSet(r) ==
    /\ resources[r].pc = "range attrs"
    /\ resources[r].i > Len(resources[r].attrs)
    /\ Serve(r, Idle(Refreshed(resources[r].state, resources[r].object,
                               resources[r].attributes)))
    /\ UNCHANGED <<configVars, state, remote, op, calls, diags, applied, decoded>>

NextShared ==
    \E r \in Resources :
        \/ ServeCreate(r)
        \/ ServeUpdate(r)
        \/ ServeDelete(r)
        \/ ServeImportState(r)
        \/ ServeReadGet(r)
        \/ ServeReadAttributes(r)
        \/ ServeReadIteration(r)
        \/ ServeReadSet(r)

SpecShared == InitShared /\ [][NextShared]_vars

-----------------------------------------------------------------------------
(* Properties of the codec and of the lookups. *)

\* The definition the schema holds for (name, objectType), read off the list
\* as a set: SpecCodec's lists hold at most one.
DefinitionFor(name, objectType) ==
    LET hits == {d \in Range(objectSchemaAttributes) :
                    d.Name = name /\ d.ObjectTypeName = objectType}
    IN  IF hits = {} THEN [ID |-> "", Name |-> "", Type |-> 0, ObjectTypeName |-> ""]
        ELSE CHOOSE d \in hits : TRUE

StatusNames == {configStatusType[i].Name : i \in 1..Len(configStatusType)}

Encoded == applied.fn = "returnAttributePayloadValue"

Decoded == decoded.fn = "getAttributeValue"

EncodedValue == applied.payload[1].ObjectAttributeValues[1].Value

\* C6: status round trip. For every attribute definition with type code 7 and
\* every status name of the status table, encoding the name succeeds, and
\* decoding a record of that definition whose status ID is the encoded value
\* yields the status name again.
C6_StatusRoundTrip ==
    \A d \in Range(objectSchemaAttributes) :
        (/\ d.Type = 7
         /\ Encoded
         /\ applied.name = d.Name
         /\ applied.objectType = d.ObjectTypeName
         /\ applied.value \in StatusNames)
        => /\ applied.err = Nil
           /\ Len(applied.payload) = 1
           /\ (/\ Decoded
               /\ decoded.attr.ObjectTypeAttribute = [Name |-> d.Name, Type |-> 7]
               /\ Len(decoded.attr.ObjectAttributeValues) >= 1
               /\ decoded.attr.ObjectAttributeValues[1].StatusID = EncodedValue)
              => /\ decoded.err = Nil
                 /\ ~decoded.panicked
                 /\ decoded.val = applied.value

\* A status name was encoded for a status-typed definition and the record
\* carrying the encoded ID was decoded.
C6_Witness ==
    /\ Encoded
    /\ DefinitionFor(applied.name, applied.objectType).Type = 7
    /\ applied.value = "Disabled"
    /\ applied.err = Nil
    /\ Decoded
    /\ decoded.attr.ObjectAttributeValues[1].StatusID = EncodedValue
    /\ decoded.val = "Disabled"

\* C7: plain-value round trip. For every attribute definition with type code 0
\* or 1 and every raw value v, encoding succeeds with v itself as the payload
\* value, and decoding a record of that definition that carries v (as Value
\* for type 0, as SearchValue for type 1) returns v.
C7_PlainRoundTrip ==
    \A d \in Range(objectSchemaAttributes) :
        (/\ d.Type \in {0, 1}
         /\ Encoded
         /\ applied.name = d.Name
         /\ applied.objectType = d.ObjectTypeName)
        => /\ applied.err = Nil
           /\ Len(applied.payload) = 1
           /\ EncodedValue = applied.value
           /\ (/\ Decoded
               /\ decoded.attr.ObjectTypeAttribute = [Name |-> d.Name, Type |-> d.Type]
               /\ Len(decoded.attr.ObjectAttributeValues) >= 1
               /\ IF d.Type = 0
                  THEN decoded.attr.ObjectAttributeValues[1].Value = applied.value
                  ELSE decoded.attr.ObjectAttributeValues[1].SearchValue = applied.value)
              => /\ decoded.err = Nil
                 /\ ~decoded.panicked
                 /\ decoded.val = applied.value

\* A value was encoded for a reference-typed definition and decoded from a
\* record whose Value field holds something else than its SearchValue.
C7_Witness ==
    /\ Encoded
    /\ DefinitionFor(applied.name, applied.objectType).Type = 1
    /\ DefinitionFor(applied.name, applied.objectType).ID # ""
    /\ applied.value = "Enabled"
    /\ Decoded
    /\ decoded.attr.ObjectTypeAttribute.Type = 1
    /\ decoded.attr.ObjectAttributeValues[1].SearchValue = "Enabled"
    /\ decoded.attr.ObjectAttributeValues[1].Value # "Enabled"
    /\ decoded.val = "Enabled"

\* The status names of the table in table order, joined by commas, built from
\* the last name backwards.
RECURSIVE NamesFrom(_)
NamesFrom(i) ==
    IF i > Len(configStatusType) THEN ""
    ELSE IF i = Len(configStatusType) THEN configStatusType[i].Name
    ELSE configStatusType[i].Name \o ("," \o NamesFrom(i + 1))

\* C8: encoding a status-typed attribute with a value that is no Name of the
\* status table returns an error and no payload record, and the error message
\* lists every status name of the table, in table order, joined by commas.
C8_UnknownStatusError ==
    (/\ Encoded
     /\ DefinitionFor(applied.name, applied.objectType).Type = 7
     /\ applied.value \notin StatusNames)
    => /\ applied.payload = <<>>
       /\ applied.err = "unknown status, available statuses: " \o NamesFrom(1)
       /\ (configStatusType = <<[ID |-> "1", Name |-> "Enabled"],
                                [ID |-> "2", Name |-> "Disabled"]>>
           => applied.err = "unknown status, available statuses: Enabled,Disabled")

\* "Unknown" was encoded for a status attribute against the table
\* Enabled, Disabled.
C8_Witness ==
    /\ Encoded
    /\ DefinitionFor(applied.name, applied.objectType).Type = 7
    /\ applied.value = "Unknown"
    /\ configStatusType = <<[ID |-> "1", Name |-> "Enabled"],
                            [ID |-> "2", Name |-> "Disabled"]>>
    /\ applied.err # Nil

\* C9: a successful encode of (name, rawValue, objectTypeName) yields exactly
\* one payload record; its ObjectTypeAttributeID is the ID of the definition
\* resolved for (name, objectTypeName) and its single value is the ID of the
\* status named rawValue when that definition's type code is 7, and rawValue
\* itself otherwise.
C9_PayloadRecord ==
    (Encoded /\ applied.err = Nil)
    => LET d == DefinitionFor(applied.name, applied.objectType)
           rec == applied.payload[1]
       IN  /\ Len(applied.payload) = 1
           /\ rec.ObjectTypeAttributeID = d.ID
           /\ Len(rec.ObjectAttributeValues) = 1
           /\ IF d.Type = 7
              THEN \E i \in 1..Len(configStatusType) :
                      /\ configStatusType[i].Name = applied.value
                      /\ \A j \in 1..(i - 1) : configStatusType[j].Name # applied.value
                      /\ rec.ObjectAttributeValues[1].Value = configStatusType[i].ID
              ELSE rec.ObjectAttributeValues[1].Value = applied.value
           /\ (/\ d.Type = 7
               /\ applied.value = "Enabled"
               /\ configStatusType[1] = [ID |-> "1", Name |-> "Enabled"])
              => rec = [ObjectTypeAttributeID |-> d.ID,
                        ObjectAttributeValues |-> <<[Value |-> "1"]>>]

\* Status = "Enabled" was encoded for object type Host with the option
\* {ID "1", Name "Enabled"} in the table.
C9_Witness ==
    /\ Encoded
    /\ applied.name = "Status"
    /\ applied.objectType = "Host"
    /\ applied.value = "Enabled"
    /\ DefinitionFor("Status", "Host").Type = 7
    /\ configStatusType = <<[ID |-> "1", Name |-> "Enabled"],
                            [ID |-> "2", Name |-> "Disabled"]>>
    /\ applied.err = Nil
    /\ applied.payload[1].ObjectAttributeValues[1].Value = "1"

\* C10: getObjectTypeByName returns the first record in list order whose Name
\* is the name asked for, getObjectAttributeByName the first whose Name and
\* owning object type both match; with no match (the empty list included)
\* each returns the zero-value record, whose ID is empty.
C10_FirstMatchOrZero ==
    /\ applied.fn = "getObjectTypeByName"
       => LET hits == {i \in 1..Len(objectSchemaTypes) :
                          objectSchemaTypes[i].Name = applied.objName}
          IN  IF hits = {}
              THEN applied.ret = [Id |-> "", Name |-> ""]
              ELSE \E i \in hits : /\ \A j \in hits : i <= j
                                   /\ applied.ret = objectSchemaTypes[i]
    /\ applied.fn = "getObjectAttributeByName"
       => LET hits == {i \in 1..Len(objectSchemaAttributes) :
                          /\ objectSchemaAttributes[i].Name = applied.objName
                          /\ objectSchemaAttributes[i].ObjectTypeName = applied.objectType}
          IN  IF hits = {}
              THEN applied.ret = [ID |-> "", Name |-> "", Type |-> 0,
                                  ObjectTypeName |-> ""]
              ELSE \E i \in hits : /\ \A j \in hits : i <= j
                                   /\ applied.ret = objectSchemaAttributes[i]

\* An attribute was looked up in a list that holds two different definitions
\* of that name for that object type, after a definition of another type.
C10_Witness ==
    /\ applied.fn = "getObjectAttributeByName"
    /\ Len(objectSchemaAttributes) = 3
    /\ objectSchemaAttributes[1].ObjectTypeName # applied.objectType
    /\ objectSchemaAttributes[1].Name = applied.objName
    /\ objectSchemaAttributes[2].Name = applied.objName
    /\ objectSchemaAttributes[2].ObjectTypeName = applied.objectType
    /\ objectSchemaAttributes[3].Name = applied.objName
    /\ objectSchemaAttributes[3].ObjectTypeName = applied.objectType
    /\ objectSchemaAttributes[3].ID # objectSchemaAttributes[2].ID
    /\ applied.ret = objectSchemaAttributes[2]

-----------------------------------------------------------------------------
(* Properties of the handlers. *)

ReservedKeys == {"Created", "Key", "Updated"}

\* The name of the object type the desired type resolves to in the cache: the
\* empty name of the zero value when the cache has no such type.
DesiredObjectType(plan) ==
    IF \E t \in Range(objectSchemaTypes) : t.Name = plan.Type.value
    THEN plan.Type.value ELSE ""

\* name has an attribute definition scoped to the desired object type.
Resolves(name, plan) ==
    \E d \in Range(objectSchemaAttributes) :
        d.Name = name /\ d.ObjectTypeName = plan.Type.value

\* Encoding (name, value) for the plan's object type returns an error.
EncodeFails(name, value, plan) ==
    returnAttributePayloadValue(name, value, DesiredObjectType(plan),
                                objectSchemaAttributes, configStatusType).err # Nil

\* C1: a Create with a desired attribute whose name resolves to no attribute
\* definition of the resource's object type fails with an error and issues no
\* remote call.
C1_UnresolvedNameFailsBeforeRemoteCall ==
    (/\ op.name = "Create"
     /\ \E name \in DOMAIN op.plan.Attributes.elements : ~Resolves(name, op.plan))
    => /\ op.outcome = "error"
       /\ diags # <<>>
       /\ calls = <<>>

\* C2: in Create and in Update every desired attribute is encoded before the
\* single remote write: a write that is issued carries one record per desired
\* attribute and is the only call; if encoding any attribute returns an error,
\* the handler ends with an error diagnostic, issues no remote call, and
\* leaves the Terraform state as it was.
C2_EncodeBeforeWrite ==
    [][op'.name \in {"Create", "Update"}
       => LET plan == op'.plan
              elements == plan.Attributes.elements
          IN  IF \E k \in DOMAIN elements : EncodeFails(k, elements[k].value, plan)
              THEN /\ op'.outcome = "error"
                   /\ Len(diags') = 1
                   /\ diags'[1].summary = "Error during object attributes setting"
                   /\ calls' = <<>>
                   /\ state' = state
              ELSE /\ Len(calls') = 1
                   /\ calls'[1].method
                        = (IF op'.name = "Create" THEN "Object.Create" ELSE "Object.Update")
                   /\ Len(calls'[1].arg.Attributes) = Cardinality(DOMAIN elements)]_vars

\* An Update whose desired map holds an unknown status next to an attribute
\* that encodes ended with an error and without a remote call.
C2_Witness ==
    /\ op.name = "Update"
    /\ DOMAIN op.plan.Attributes.elements = {"Status", "Score"}
    /\ op.plan.Attributes.elements["Status"].value = "Unknown"
    /\ \E d \in Range(objectSchemaAttributes) : d.Name = "Status" /\ d.Type = 7
    /\ op.outcome = "error"
    /\ calls = <<>>
    /\ state # NoState

\* C3: when a remote call of Create, Read, Update or Delete fails, the handler
\* returns an error diagnostic and the stored state is what it was before; the
\* state changes only when every remote call of the handler succeeded.
C3_RemoteFailureKeepsState ==
    [][op'.name \in {"Create", "Read", "Update", "Delete"}
       => /\ (\E i \in 1..Len(calls') : calls'[i].err # Nil)
             => /\ op'.outcome = "error"
                /\ diags' # <<>>
                /\ state' = state
          /\ state' # state => \A i \in 1..Len(calls') : calls'[i].err = Nil]_vars

\* A Read whose Object.Get succeeded and whose Object.Attributes failed.
C3_Witness ==
    /\ op.name = "Read"
    /\ Len(calls) = 2
    /\ calls[1].err = Nil
    /\ calls[2].err # Nil
    /\ op.outcome = "error"
    /\ state # NoState
    /\ state.Attributes.state = "known"

\* C4: after a successful Read the keys of the rebuilt attribute map are the
\* attribute names the remote returned, less the configured ignore-keys and
\* less Created, Key and Updated.
C4_ReadKeySet ==
    (op.name = "Read" /\ op.outcome = "ok")
    => /\ state.Attributes.state = "known"
       /\ DOMAIN state.Attributes.elements
            = {op.attrs[i].ObjectTypeAttribute.Name : i \in 1..Len(op.attrs)}
                \ ({ignoreKeys[i] : i \in 1..Len(ignoreKeys)} \cup ReservedKeys)

\* A Read was returned Key, Score and Status with Score among the configured
\* ignore-keys, and kept Status alone.
C4_Witness ==
    /\ op.name = "Read"
    /\ op.outcome = "ok"
    /\ {op.attrs[i].ObjectTypeAttribute.Name : i \in 1..Len(op.attrs)}
         = {"Key", "Score", "Status"}
    /\ Contains(ignoreKeys, "Score")
    /\ DOMAIN state.Attributes.elements = {"Status"}

\* The record the payload is to hold for desired attribute (name, value).
ExpectedRecord(name, value, plan) ==
    LET hits == {d \in Range(objectSchemaAttributes) :
                    d.Name = name /\ d.ObjectTypeName = DesiredObjectType(plan)}
        id == IF hits = {} THEN "" ELSE (CHOOSE d \in hits : TRUE).ID
        type == IF hits = {} THEN 0 ELSE (CHOOSE d \in hits : TRUE).Type
    IN  [ObjectTypeAttributeID |-> id,
         ObjectAttributeValues |->
            <<[Value |-> IF type = 7
                         THEN (CHOOSE st \in Range(configStatusType) : st.Name = value).ID
                         ELSE value]>>]

\* C5: an Update issues no remote delete call and, once its desired
\* attributes are encoded, exactly one remote update call (none when encoding
\* fails); the payload holds exactly one record per attribute of the desired
\* map and no record for an attribute of the prior state that the desired map
\* lacks.
C5_UpdateSendsDesiredOnly ==
    [][op'.name = "Update"
       => LET plan == op'.plan
              elements == plan.Attributes.elements
              failed == \E k \in DOMAIN elements : EncodeFails(k, elements[k].value, plan)
          IN  /\ \A i \in 1..Len(calls') : calls'[i].method = "Object.Update"
              /\ Len(calls') = IF failed THEN 0 ELSE 1
              /\ ~failed
                 => LET recs == calls'[1].arg.Attributes
                    IN  /\ \E o \in RangeOrders(DOMAIN elements) :
                              recs = [i \in 1..Len(o) |->
                                         ExpectedRecord(o[i], elements[o[i]].value, plan)]
                        /\ \A n \in DOMAIN state.Attributes.elements \ DOMAIN elements :
                              \A d \in Range(objectSchemaAttributes) :
                                 (d.Name = n /\ d.ObjectTypeName = plan.Type.value)
                                 => \A i \in 1..Len(recs) :
                                       recs[i].ObjectTypeAttributeID # d.ID]_vars

\* An Update whose desired map is Status alone, on a state that also held
\* Score, sent one update call with the one record of Status.
C5_Witness ==
    /\ op.name = "Update"
    /\ op.outcome = "ok"
    /\ DOMAIN op.plan.Attributes.elements = {"Status"}
    /\ "Score" \in op.removed
    /\ \E d \in Range(objectSchemaAttributes) : d.Name = "Score" /\ d.ID = "13"
    /\ Len(calls) = 1
    /\ calls[1].method = "Object.Update"
    /\ calls[1].arg.Attributes
         = <<[ObjectTypeAttributeID |-> "11", ObjectAttributeValues |-> <<[Value |-> "1"]>>]>>

\* C11: after ImportState followed directly by a successful Read, every field
\* of the state the remote owns holds the remote object's value: workspace ID,
\* global ID, ID, label, object key, created, updated, has_avatar and type are
\* known and equal the object's, and the attribute map is known; no computed
\* field is left null from the import seed.
C11_ImportThenReadPopulates ==
    [][(op.name = "ImportState" /\ op'.name = "Read" /\ op'.outcome = "ok")
       => LET object == remote.object
              known(v) == [state |-> "known", value |-> v]
          IN  /\ state'.WorkspaceId = known(object.WorkspaceId)
              /\ state'.GlobalId = known(object.GlobalId)
              /\ state'.Id = known(object.ID)
              /\ state'.Label = known(object.Label)
              /\ state'.ObjectKey = known(object.ObjectKey)
              /\ state'.Created = known(object.Created)
              /\ state'.Updated = known(object.Updated)
              /\ state'.HasAvatar = known(object.HasAvatar)
              /\ state'.Type = known(object.ObjectTypeName)
              /\ state'.Attributes.state = "known"]_vars

\* A desired attribute of the plan resolves to a definition of the desired
\* object type whose type code is none of 0, 1 and 7.
HasUnsupportedAttribute(plan) ==
    \E name \in DOMAIN plan.Attributes.elements :
        \E d \in Range(objectSchemaAttributes) :
            /\ d.Name = name
            /\ d.ObjectTypeName = DesiredObjectType(plan)
            /\ d.Type \notin {0, 1, 7}

\* C13: a Create or an Update with a desired attribute that resolves to a
\* definition whose type code is not 0, 1 or 7 fails with an error and issues
\* no remote write.
C13_UnsupportedTypeIsFatal ==
    (op.name \in {"Create", "Update"} /\ HasUnsupportedAttribute(op.plan))
    => /\ op.outcome = "error"
       /\ diags # <<>>
       /\ calls = <<>>

\* The returned record at position i of the last Read is not excluded from
\* the attribute map.
Kept(i) ==
    op.attrs[i].ObjectTypeAttribute.Name
        \notin ({ignoreKeys[k] : k \in 1..Len(ignoreKeys)} \cup ReservedKeys)

\* The value the attribute map is to hold for the returned record rec.
ExpectedValue(rec) ==
    LET t == rec.ObjectTypeAttribute.Type
        v == rec.ObjectAttributeValues[1]
        names == {st \in Range(configStatusType) : st.ID = v.StatusID}
    IN  IF t = 0 THEN v.Value
        ELSE IF t = 1 THEN v.SearchValue
        ELSE IF t = 7 THEN (IF names = {} THEN "" ELSE (CHOOSE st \in names : TRUE).Name)
        ELSE ""

\* C12: a Read whose two remote calls succeeded and that was returned a
\* non-ignored attribute with a type code other than 0, 1 and 7 (the other
\* non-ignored attributes carrying a value) succeeds without a diagnostic; the
\* name of that attribute maps to the empty string in the rebuilt map and
\* every other non-ignored attribute maps to its decoded value.
C12_ReadLenientOnDecodeError ==
    (/\ op.name = "Read"
     /\ Len(calls) = 2
     /\ calls[2].err = Nil
     /\ \E i \in 1..Len(op.attrs) :
           Kept(i) /\ op.attrs[i].ObjectTypeAttribute.Type \notin {0, 1, 7}
     /\ \A i \in 1..Len(op.attrs) :
           (Kept(i) /\ op.attrs[i].ObjectTypeAttribute.Type \in {0, 1, 7})
           => Len(op.attrs[i].ObjectAttributeValues) >= 1)
    => /\ op.outcome = "ok"
       /\ diags = <<>>
       /\ state.Attributes.state = "known"
       /\ \A i \in 1..Len(op.attrs) :
             Kept(i)
             => LET name == op.attrs[i].ObjectTypeAttribute.Name
                IN  /\ name \in DOMAIN state.Attributes.elements
                    /\ state.Attributes.elements[name]
                         = [state |-> "known",
                            value |-> IF op.attrs[i].ObjectTypeAttribute.Type
                                           \notin {0, 1, 7}
                                      THEN ""
                                      ELSE ExpectedValue(op.attrs[i])]

\* A Read was returned Score, of the unsupported type code, next to Status,
\* with Score not ignored: it succeeded with Score empty and Status decoded.
C12_Witness ==
    /\ op.name = "Read"
    /\ op.outcome = "ok"
    /\ diags = <<>>
    /\ ~Contains(ignoreKeys, "Score")
    /\ \E i \in 1..Len(op.attrs) :
          /\ op.attrs[i].ObjectTypeAttribute.Name = "Score"
          /\ op.attrs[i].ObjectTypeAttribute.Type \notin {0, 1, 7}
    /\ DOMAIN state.Attributes.elements = {"Score", "Status"}
    /\ state.Attributes.elements["Score"].value = ""
    /\ state.Attributes.elements["Status"].value = "Enabled"

\* C14: a successful Read that directly follows a successful Read of the same
\* object, the remote returning the same object and the same attribute records
\* both times, leaves the state as the first Read left it, whatever the state
\* before the first Read was.
C14_ReadIdempotent ==
    [][(op'.name = "Read" /\ op'.outcome = "ok" /\ op'.repeat) => state' = state]_vars

\* A second successful Read in a row was given the same answers, on a state
\* that an import seeded and the first Read filled.
C14_Witness ==
    /\ op.name = "Read"
    /\ op.outcome = "ok"
    /\ op.repeat
    /\ Len(op.attrs) >= 2
    /\ state.Created.state = "null"
    /\ state.Label = [state |-> "known", value |-> remote.object.Label]
    /\ DOMAIN state.Attributes.elements = {"Score", "Status"}

\* C15: once the provider is configured, no step of a Create, Read, Update,
\* Delete or ImportState, of any resource instance and in any interleaving
\* with the handlers of the other instances, changes the object-type list, the
\* attribute-definition list, the status table or the configured ignore-key
\* list; building Read's exclusion list leaves the ignore-key list as it was.
C15_ConfigurationReadOnly ==
    [][/\ objectSchemaTypes' = objectSchemaTypes
       /\ objectSchemaAttributes' = objectSchemaAttributes
       /\ configStatusType' = configStatusType
       /\ ignoreKeys' = ignoreKeys]_vars

\* Two resource instances are both inside Read's loop, each past its first
\* iteration, with ignore-keys configured.
C15_Witness ==
    /\ resources # <<>>
    /\ \A r \in DOMAIN resources :
          /\ resources[r].pc = "range attrs"
          /\ resources[r].i = 2
    /\ \E r \in DOMAIN resources : resources[r].state.Attributes.state = "known"
    /\ \E r \in DOMAIN resources : resources[r].state.Attributes.state = "null"
    /\ ignoreKeys = <<"Name", "Score">>

====
